---- MODULE Spec2Model ----
(***************************************************************************)
(* A model of the SimpleNeuralNetwork class (src/SimpleNeuralNetwork.py).  *)
(*                                                                         *)
(* numpy arrays are modelled by their shape and by the expression that     *)
(* produced their content: `val` is that expression in postfix form, a     *)
(* sequence of tokens [op, k].  Two arrays with equal shape and equal val  *)
(* hold the same numbers, because the same deterministic float operations  *)
(* were applied to the same operands in the same order.                     *)
(* The float64 evaluation of the sigmoid at one number is modelled apart   *)
(* (FloatExp, FloatAddOne, FloatRecip, sigmoid_float).                     *)
(***************************************************************************)
EXTENDS Integers, Sequences, FiniteSets, TLC

VARIABLES constructed, ctor_input, first_layer, current_layer, layer_sizes,
          weights, biases, layer_counter, ret, num, sig

vars == <<constructed, ctor_input, first_layer, current_layer, layer_sizes,
          weights, biases, layer_counter, ret, num, sig>>

netvars == <<constructed, ctor_input, first_layer, current_layer, layer_sizes,
             weights, biases, layer_counter, ret>>

(***************************************************************************)
(* Bounds of the model.                                                    *)
(***************************************************************************)
\* largest number of neurons of a layer, and largest dimension of an array
MaxSize == 2
\* largest number of layers of a layer_sizes array handed to the setter
MaxLayers == 3
\* largest number of entries of a weight list or bias list handed to a setter
MaxEntries == 2
\* largest magnitude of a number handed to the sigmoid function
MaxInput == 750

Sizes == 1..MaxSize

\* all sequences over S with at most n elements
SeqsUpTo(S, n) == UNION {[1..m -> S] : m \in 0..n}

\* Python's zero-based indexing of a sequence
At(s, n) == s[n + 1]

(***************************************************************************)
(* numpy arrays and the values handed to the setters.                      *)
(***************************************************************************)
Token(op, k) == [op |-> op, k |-> k]

\* a numpy array of the given shape and dtype
NdArray(shape, dtype, val) ==
    [kind |-> "ndarray", shape |-> shape, dtype |-> dtype, val |-> val]

\* something that is no numpy array (a Python list, a number, None, ...)
NotAnArray == [kind |-> "other", shape |-> <<>>, dtype |-> "object", val |-> <<>>]

\* the input vector of the constructor: a one-dimensional float array
InputVector(n) == NdArray(<<n>>, "float", <<Token("input", 0)>>)

\* a new input vector assigned to the attribute first_layer after
\* construction
AssignedVector(n) == NdArray(<<n>>, "float", <<Token("assigned", 0)>>)

\* the k-th entry of a weight list, and of a bias list
WeightArray(shape, k) == NdArray(shape, "float", <<Token("weights", k)>>)
BiasArray(shape, k) == NdArray(shape, "float", <<Token("biases", k)>>)

WeightShapes == {<<r, c>> : r \in Sizes, c \in Sizes} \cup {<<n>> : n \in Sizes}
BiasShapes == {<<n>> : n \in Sizes}

PyList(items) == [kind |-> "list", items |-> items]
NotAList == [kind |-> "other", items |-> <<>>]

\* well-typed weight lists: every entry a 1-D or 2-D float array
WeightLists ==
    {PyList([i \in 1..Len(s) |-> WeightArray(s[i], i - 1)]) :
        s \in SeqsUpTo(WeightShapes, MaxEntries)}

\* ill-typed values for the weights: no list, an entry that is no array,
\* a three-dimensional entry, an entry of strings
BadWeightLists ==
    { NotAList,
      PyList(<<NotAnArray>>),
      PyList(<<NdArray(<<1, 1, 1>>, "float", <<Token("weights", 0)>>)>>),
      PyList(<<NdArray(<<1>>, "str", <<Token("weights", 0)>>)>>) }

\* well-typed bias lists: every entry a 1-D float array
BiasLists ==
    {PyList([i \in 1..Len(s) |-> BiasArray(s[i], i - 1)]) :
        s \in SeqsUpTo(BiasShapes, MaxEntries)}

\* ill-typed values for the biases: no list, an entry that is no array,
\* a two-dimensional entry, an entry of strings
BadBiasLists ==
    { NotAList,
      PyList(<<NotAnArray>>),
      PyList(<<NdArray(<<1, 1>>, "float", <<Token("biases", 0)>>)>>),
      PyList(<<NdArray(<<1>>, "str", <<Token("biases", 0)>>)>>) }

\* values handed to the layer_sizes setter: `vals` are the entries of a
\* one-dimensional array
SizesArray(vals) ==
    [kind |-> "ndarray", shape |-> <<Len(vals)>>, dtype |-> "int", vals |-> vals]

\* one-dimensional int arrays of positive entries (the empty one included)
LayerSizeArrays == {SizesArray(v) : v \in SeqsUpTo(Sizes, MaxLayers)}

\* invalid layer sizes: no numpy array, a two-dimensional array, an array
\* of floats, arrays with an entry <= 0
NotNumpySizes == [kind |-> "other", shape |-> <<1>>, dtype |-> "int", vals |-> <<1>>]
TwoDimSizes == [kind |-> "ndarray", shape |-> <<1, 1>>, dtype |-> "int", vals |-> <<1>>]
FloatSizes == [kind |-> "ndarray", shape |-> <<1>>, dtype |-> "float", vals |-> <<1>>]
NonPositiveSizes == {SizesArray(<<0>>), SizesArray(<<1, 0>>), SizesArray(<<-1, 1>>)}

BadLayerSizes == {NotNumpySizes, TwoDimSizes, FloatSizes} \cup NonPositiveSizes

(***************************************************************************)
(* The validation done by the three property setters.  Each operator gives *)
(* the exception the setter raises for a new value, "none" when it stores  *)
(* the value.                                                              *)
(***************************************************************************)
\* len() of a one-dimensional array
PyLen(a) == a.shape[1]

\* the setter without its check that every size is positive
layer_sizes_error_no_sign_check(new_layer_sizes, cur, ctr) ==
    IF new_layer_sizes.kind # "ndarray" THEN "TypeError"
    ELSE IF Len(new_layer_sizes.shape) # 1 THEN "ValueError"
    ELSE IF new_layer_sizes.dtype # "int" THEN "TypeError"
    ELSE IF ctr >= Len(new_layer_sizes.vals) THEN "IndexError"
    ELSE IF PyLen(cur) # At(new_layer_sizes.vals, ctr) THEN "ValueError"
    ELSE "none"

layer_sizes_error(new_layer_sizes, cur, ctr) ==
    IF new_layer_sizes.kind # "ndarray" THEN "TypeError"
    ELSE IF Len(new_layer_sizes.shape) # 1 THEN "ValueError"
    ELSE IF new_layer_sizes.dtype # "int" THEN "TypeError"
    ELSE IF \E i \in DOMAIN new_layer_sizes.vals : new_layer_sizes.vals[i] <= 0
        THEN "ValueError"
    ELSE IF ctr >= Len(new_layer_sizes.vals) THEN "IndexError"
    ELSE IF PyLen(cur) # At(new_layer_sizes.vals, ctr) THEN "ValueError"
    ELSE "none"

bias_entry_error(bias_vector) ==
    IF bias_vector.kind # "ndarray" THEN "TypeError"
    ELSE IF Len(bias_vector.shape) # 1 THEN "ValueError"
    ELSE IF bias_vector.dtype \notin {"float", "int"} THEN "TypeError"
    ELSE "none"

weight_entry_error(weight_matrix) ==
    IF weight_matrix.kind # "ndarray" THEN "TypeError"
    ELSE IF Len(weight_matrix.shape) \notin {1, 2} THEN "ValueError"
    ELSE IF weight_matrix.dtype \notin {"float", "int"} THEN "TypeError"
    ELSE "none"

\* the first entry, in list order, that the loop of a setter rejects
RECURSIVE first_bias_error(_, _)
first_bias_error(items, n) ==
    IF n >= Len(items) THEN "none"
    ELSE IF bias_entry_error(At(items, n)) # "none"
        THEN bias_entry_error(At(items, n))
    ELSE first_bias_error(items, n + 1)

RECURSIVE first_weight_error(_, _)
first_weight_error(items, n) ==
    IF n >= Len(items) THEN "none"
    ELSE IF weight_entry_error(At(items, n)) # "none"
        THEN weight_entry_error(At(items, n))
    ELSE first_weight_error(items, n + 1)

\* `sizes` is self.layer_sizes, in reach of the setter, which never reads it
biases_error(new_biases, sizes) ==
    IF new_biases.kind # "list" THEN "TypeError"
    ELSE first_bias_error(new_biases.items, 0)

\* `sizes` is self.layer_sizes, in reach of the setter, which never reads it
weights_error(new_weights, sizes) ==
    IF new_weights.kind # "list" THEN "TypeError"
    ELSE first_weight_error(new_weights.items, 0)

(***************************************************************************)
(* The arithmetic of one layer transition.                                 *)
(***************************************************************************)
\* sigmoid_function applied to an array: elementwise, the shape is kept
sigmoid_function(a) ==
    NdArray(a.shape, "float", Append(a.val, Token("sigmoid", 0)))

\* np.dot(w, x) of a 1-D or 2-D array w with a 1-D array x
dot_error(w, x) ==
    IF Len(w.shape) = 2
        THEN IF w.shape[2] # x.shape[1] THEN "ValueError" ELSE "none"
        ELSE IF w.shape[1] # x.shape[1] THEN "ValueError" ELSE "none"

np_dot(w, x) ==
    NdArray(IF Len(w.shape) = 2 THEN <<w.shape[1]>> ELSE <<>>, "float",
            x.val \o w.val \o <<Token("dot", 0)>>)

\* a + b with numpy broadcasting: a is a scalar or 1-D, b is 1-D
add_error(a, b) ==
    IF Len(a.shape) = 0 THEN "none"
    ELSE IF a.shape[1] = b.shape[1] \/ a.shape[1] = 1 \/ b.shape[1] = 1
        THEN "none"
    ELSE "ValueError"

np_add(a, b) ==
    NdArray(IF Len(a.shape) = 0 THEN b.shape
            ELSE IF a.shape[1] = 1 THEN b.shape ELSE a.shape,
            "float", a.val \o b.val \o <<Token("add", 0)>>)

(***************************************************************************)
(* update(): one layer transition.  The operands are evaluated in Python's *)
(* order: weights[counter], the dot product, biases[counter], the sum.     *)
(***************************************************************************)
update_error(w, b, cur, ctr) ==
    IF ctr >= Len(w) THEN "IndexError"
    ELSE IF dot_error(At(w, ctr), cur) # "none" THEN "ValueError"
    ELSE IF ctr >= Len(b) THEN "IndexError"
    ELSE add_error(np_dot(At(w, ctr), cur), At(b, ctr))

\* the layer update() stores in current_layer
updated_layer(w, b, cur, ctr) ==
    sigmoid_function(np_add(np_dot(At(w, ctr), cur), At(b, ctr)))

\* an update() that forgets to advance the layer counter
advanced_counter_stuck(ctr) == ctr

\* the layer counter after a successful update()
advanced_counter(ctr) == ctr + 1

(***************************************************************************)
(* check_shapes(): the first mismatch, in loop order.                      *)
(***************************************************************************)
weight_shape_error(shape, sizes, n) ==
    IF Len(shape) = 2
        THEN IF n + 1 >= Len(sizes) THEN "IndexError"
             ELSE IF shape[1] # At(sizes, n + 1) \/ shape[2] # At(sizes, n)
                 THEN "ValueError"
             ELSE "none"
    ELSE IF Len(shape) = 1
        THEN IF n >= Len(sizes) THEN "IndexError"
             ELSE IF shape[1] # At(sizes, n) THEN "ValueError"
             ELSE "none"
    ELSE "none"

\* a check of the bias vectors against the size of the wrong layer
bias_shape_error_wrong_layer(shape, sizes, n) ==
    IF n + 1 >= Len(sizes) THEN "IndexError"
    ELSE IF shape[1] # At(sizes, n) THEN "ValueError"
    ELSE "none"

bias_shape_error(shape, sizes, n) ==
    IF n + 1 >= Len(sizes) THEN "IndexError"
    ELSE IF shape[1] # At(sizes, n + 1) THEN "ValueError"
    ELSE "none"

RECURSIVE check_weight_shapes(_, _, _)
check_weight_shapes(w, sizes, n) ==
    IF n >= Len(w) THEN "none"
    ELSE IF weight_shape_error(At(w, n).shape, sizes, n) # "none"
        THEN weight_shape_error(At(w, n).shape, sizes, n)
    ELSE check_weight_shapes(w, sizes, n + 1)

RECURSIVE check_bias_shapes(_, _, _)
check_bias_shapes(b, sizes, n) ==
    IF n >= Len(b) THEN "none"
    ELSE IF bias_shape_error(At(b, n).shape, sizes, n) # "none"
        THEN bias_shape_error(At(b, n).shape, sizes, n)
    ELSE check_bias_shapes(b, sizes, n + 1)

check_shapes(w, b, sizes) ==
    IF check_weight_shapes(w, sizes, 0) # "none"
        THEN check_weight_shapes(w, sizes, 0)
    ELSE check_bias_shapes(b, sizes, 0)

(***************************************************************************)
(* run(): the reset and the list comprehension of update() calls.          *)
(***************************************************************************)
\* run() resets the network exactly when the layer counter is truthy
run_resets(ctr) == ctr # 0

\* the number of update() calls of one run: len(layer_sizes[:-1])
run_length(sizes) == IF Len(sizes) = 0 THEN 0 ELSE Len(sizes) - 1

\* the update() calls of the list comprehension, in order; an exception
\* ends the run and leaves the object as the updates so far made it
RECURSIVE run_updates(_, _, _, _, _, _)
run_updates(w, b, cur, ctr, left, acc) ==
    IF left = 0
        THEN [current_layer |-> cur, layer_counter |-> ctr,
              raised |-> "none", value |-> acc, nupd |-> Len(acc) - 1]
    ELSE IF update_error(w, b, cur, ctr) # "none"
        THEN [current_layer |-> cur, layer_counter |-> ctr,
              raised |-> update_error(w, b, cur, ctr), value |-> <<>>,
              nupd |-> Len(acc) - 1]
    ELSE run_updates(w, b, updated_layer(w, b, cur, ctr),
                     advanced_counter(ctr), left - 1,
                     Append(acc, updated_layer(w, b, cur, ctr)))

\* the object and the result after run()
run_outcome(w, b, sizes, first, cur, ctr) ==
    IF check_shapes(w, b, sizes) # "none"
        THEN [current_layer |-> cur, layer_counter |-> ctr,
              raised |-> check_shapes(w, b, sizes), value |-> <<>>,
              nupd |-> 0]
    ELSE LET start == IF run_resets(ctr) THEN first ELSE cur
             ctr0 == IF run_resets(ctr) THEN 0 ELSE ctr
         IN run_updates(w, b, start, ctr0, run_length(sizes), <<start>>)

(***************************************************************************)
(* The float64 evaluation of 1. / (1. + np.exp(-num)) at one number.       *)
(* A float is modelled by the class its value falls in:                    *)
(*   "zero" 0.0, "tiny" 0 < v <= 2^-53, "frac" 2^-53 < v < 1, "one" 1.0,   *)
(*   "big" 1 < v <= DBL_MAX, "inf" +infinity.                              *)
(***************************************************************************)
\* bits of the significand of a float64
MantBits == 53
\* exponent of the smallest power of two above DBL_MAX
MaxExp == 1024
\* 1000 * ln 2, rounded down
Ln2Milli == 693

\* np.exp(y) for an integer y: e^y overflows to inf above 2^MaxExp, and is
\* no more than half an ulp of 1.0 at or below 2^-MantBits
FloatExp(y) ==
    IF y * 1000 > MaxExp * Ln2Milli THEN "inf"
    ELSE IF y > 0 THEN "big"
    ELSE IF y = 0 THEN "one"
    ELSE IF (-y) * 1000 > MantBits * Ln2Milli THEN "tiny"
    ELSE "frac"

\* 1. + v, rounded to nearest: a tiny v is rounded away
FloatAddOne(v) ==
    CASE v \in {"zero", "tiny"} -> "one"
      [] v \in {"frac", "one", "big"} -> "big"
      [] v = "inf" -> "inf"

\* 1. / v for v >= 1
FloatRecip(v) ==
    CASE v = "one" -> "one"
      [] v = "big" -> "frac"
      [] v = "inf" -> "zero"

\* a sigmoid that forgets the sign of its argument: 1. / (1. + np.exp(num))
sigmoid_float_no_minus(x) == FloatRecip(FloatAddOne(FloatExp(x)))

\* sigmoid_function at one number
sigmoid_float(x) == FloatRecip(FloatAddOne(FloatExp(-x)))

(***************************************************************************)
(* The state: the attributes of one SimpleNeuralNetwork object, the        *)
(* outcome `ret` of the call that just ended, until the caller has taken   *)
(* it, and the argument and result of the last evaluation of the sigmoid   *)
(* at a number.  The program is sequential: the caller makes its next call *)
(* after it has taken the outcome of the previous one.                     *)
(***************************************************************************)
\* the outcome of a call: the layer sizes handed to it (for the constructor
\* and the layer_sizes setter), the exception raised ("none" for a normal
\* return), the value returned, and how many sigmoid evaluations and how
\* many update() calls completed during the call
Outcome(op, arg, raised, value, nsig, nupd) ==
    [op |-> op, arg |-> arg, raised |-> raised, value |-> value,
     nsig |-> nsig, nupd |-> nupd]

NoArg == [kind |-> "none", shape |-> <<>>, dtype |-> "none", vals |-> <<>>]

NoOutcome == Outcome("none", NoArg, "none", <<>>, 0, 0)

\* no call is in progress and no outcome is waiting for the caller
Idle == ret = NoOutcome

Init ==
    /\ constructed = FALSE
    /\ ctor_input = NotAnArray
    /\ first_layer = NotAnArray
    /\ current_layer = NotAnArray
    /\ layer_sizes = <<>>
    /\ weights = <<>>
    /\ biases = <<>>
    /\ layer_counter = 0
    /\ ret = NoOutcome
    /\ num = 0
    /\ sig = "unset"

\* SimpleNeuralNetwork(first_layer, layer_sizes, weight_list, bias_list)
Construct(input, new_layer_sizes, weight_list, bias_list) ==
    /\ LET layer == sigmoid_function(input)
           e1 == layer_sizes_error(new_layer_sizes, layer, layer_counter)
           e2 == weights_error(weight_list, new_layer_sizes.vals)
           e3 == biases_error(bias_list, new_layer_sizes.vals)
           e == IF e1 # "none" THEN e1 ELSE IF e2 # "none" THEN e2 ELSE e3
       IN IF e # "none"
          THEN /\ ret' = Outcome("__init__", new_layer_sizes, e, <<>>, 2, 0)
               /\ UNCHANGED <<constructed, ctor_input, first_layer,
                              current_layer, layer_sizes, weights, biases,
                              layer_counter>>
          ELSE /\ constructed' = TRUE
               /\ ctor_input' = input
               /\ first_layer' = layer
               /\ current_layer' = layer
               /\ layer_sizes' = new_layer_sizes.vals
               /\ weights' = weight_list.items
               /\ biases' = bias_list.items
               /\ ret' = Outcome("__init__", new_layer_sizes, "none", <<>>, 2, 0)
               /\ UNCHANGED layer_counter
    /\ UNCHANGED <<num, sig>>

\* net.layer_sizes = new_layer_sizes
SetLayerSizes(new_layer_sizes) ==
    /\ LET e == layer_sizes_error(new_layer_sizes, current_layer, layer_counter)
       IN /\ layer_sizes' = IF e = "none" THEN new_layer_sizes.vals
                            ELSE layer_sizes
          /\ ret' = Outcome("layer_sizes", new_layer_sizes, e, <<>>, 0, 0)
    /\ UNCHANGED <<constructed, ctor_input, first_layer, current_layer, weights, biases,
                   layer_counter, num, sig>>

\* net.weights = new_weights
SetWeights(new_weights) ==
    /\ LET e == weights_error(new_weights, layer_sizes)
       IN /\ weights' = IF e = "none" THEN new_weights.items ELSE weights
          /\ ret' = Outcome("weights", NoArg, e, <<>>, 0, 0)
    /\ UNCHANGED <<constructed, ctor_input, first_layer, current_layer, layer_sizes,
                   biases, layer_counter, num, sig>>

\* net.biases = new_biases
SetBiases(new_biases) ==
    /\ LET e == biases_error(new_biases, layer_sizes)
       IN /\ biases' = IF e = "none" THEN new_biases.items ELSE biases
          /\ ret' = Outcome("biases", NoArg, e, <<>>, 0, 0)
    /\ UNCHANGED <<constructed, ctor_input, first_layer, current_layer, layer_sizes,
                   weights, layer_counter, num, sig>>

\* net.update()
Update ==
    /\ Idle
    /\ constructed
    /\ LET e == update_error(weights, biases, current_layer, layer_counter)
           new == updated_layer(weights, biases, current_layer, layer_counter)
       IN IF e # "none"
          THEN /\ ret' = Outcome("update", NoArg, e, <<>>, 0, 0)
               /\ UNCHANGED <<current_layer, layer_counter>>
          ELSE /\ current_layer' = new
               /\ layer_counter' = advanced_counter(layer_counter)
               /\ ret' = Outcome("update", NoArg, "none", <<new>>, 1, 1)
    /\ UNCHANGED <<constructed, ctor_input, first_layer, layer_sizes, weights, biases,
                   num, sig>>

\* net.run()
Run ==
    /\ Idle
    /\ constructed
    /\ LET out == run_outcome(weights, biases, layer_sizes, first_layer,
                              current_layer, layer_counter)
       IN /\ current_layer' = out.current_layer
          /\ layer_counter' = out.layer_counter
          /\ ret' = Outcome("run", NoArg, out.raised, out.value, out.nupd, out.nupd)
    /\ UNCHANGED <<constructed, ctor_input, first_layer, layer_sizes, weights, biases,
                   num, sig>>

\* net.first_layer = vector: a plain attribute, stored as it is; the caller
\* hands in a new input of the size of the one it replaces
SetFirstLayer(vector) ==
    /\ first_layer' = vector
    /\ ret' = Outcome("first_layer", NoArg, "none", <<>>, 0, 0)
    /\ UNCHANGED <<constructed, ctor_input, current_layer, layer_sizes, weights, biases,
                   layer_counter, num, sig>>

\* the caller takes the return value or the exception of the call
Return ==
    /\ ~Idle
    /\ ret' = NoOutcome
    /\ UNCHANGED <<constructed, ctor_input, first_layer, current_layer, layer_sizes,
                   weights, biases, layer_counter, num, sig>>

\* SimpleNeuralNetwork.sigmoid_function(x) for a number x
Sigmoid(x) ==
    /\ num' = x
    /\ sig' = sigmoid_float(x)
    /\ UNCHANGED netvars

\* a call is made on a constructed object, by a caller that is not waiting
\* for the outcome of an earlier call
DoConstruct ==
    /\ Idle
    /\ ~constructed
    /\ \E n \in Sizes, ls \in LayerSizeArrays \cup BadLayerSizes,
          wl \in WeightLists \cup BadWeightLists,
          bl \in BiasLists \cup BadBiasLists :
            Construct(InputVector(n), ls, wl, bl)
DoSetLayerSizes ==
    /\ Idle
    /\ constructed
    /\ \E ls \in LayerSizeArrays \cup BadLayerSizes : SetLayerSizes(ls)
DoSetWeights ==
    /\ Idle
    /\ constructed
    /\ \E wl \in WeightLists \cup BadWeightLists : SetWeights(wl)
DoSetBiases ==
    /\ Idle
    /\ constructed
    /\ \E bl \in BiasLists \cup BadBiasLists : SetBiases(bl)
DoSetFirstLayer ==
    /\ Idle
    /\ constructed
    /\ SetFirstLayer(AssignedVector(PyLen(first_layer)))
DoSigmoid == \E x \in (-MaxInput)..MaxInput : Sigmoid(x)

\* the constructor, the three validated properties, update() and run()
Next ==
    \/ DoConstruct
    \/ DoSetLayerSizes
    \/ DoSetWeights
    \/ DoSetBiases
    \/ Update
    \/ Run
    \/ Return

Spec == Init /\ [][Next]_vars

\* the same, and assignments to the plain attribute first_layer
NextAttr == Next \/ DoSetFirstLayer

SpecAttr == Init /\ [][NextAttr]_vars

\* the sigmoid function alone, applied to numbers
SpecSigmoid == Init /\ [][DoSigmoid]_vars

(***************************************************************************)
(* What the claims speak of.                                               *)
(***************************************************************************)
\* the number of layer transitions layer_sizes declares
Transitions == Len(layer_sizes) - 1

\* entry k (zero-based) of a weight list matches the declared sizes: a 2-D
\* matrix of shape (size of layer k+1, size of layer k) or a 1-D vector of
\* the size of layer k
WeightConforms(items, sizes, k) ==
    \/ At(items, k).shape = <<At(sizes, k + 1), At(sizes, k)>>
    \/ At(items, k).shape = <<At(sizes, k)>>

\* entry k (zero-based) of a bias list has the size of layer k+1
BiasConforms(items, sizes, k) == At(items, k).shape = <<At(sizes, k + 1)>>

\* one conforming weight entry and bias vector per layer transition
ValidShapes ==
    /\ constructed
    /\ Len(weights) = Transitions
    /\ Len(biases) = Transitions
    /\ \A k \in 0..(Transitions - 1) :
          WeightConforms(weights, layer_sizes, k) /\ BiasConforms(biases, layer_sizes, k)

\* an entry of a list for a declared transition does not match its sizes
WeightMismatch(items, sizes) ==
    \E k \in 0..(Len(sizes) - 2) : k < Len(items) /\ ~WeightConforms(items, sizes, k)
BiasMismatch(items, sizes) ==
    \E k \in 0..(Len(sizes) - 2) : k < Len(items) /\ ~BiasConforms(items, sizes, k)

\* run() has just returned normally
RunReturned == ret.op = "run" /\ ret.raised = "none"

(***************************************************************************)
(* C1: for every network whose weights and biases have valid shapes for    *)
(* its layer_sizes, run() returns a sequence of len(layer_sizes) layers.   *)
(***************************************************************************)
C1_RunReturnsAllLayers ==
    (ret.op = "run" /\ ValidShapes)
        => (ret.raised = "none" /\ Len(ret.value) = Len(layer_sizes))

(***************************************************************************)
(* C2: if an entry's shape does not match the declared layer sizes, run()  *)
(* raises ValueError, returns nothing and leaves current_layer and the     *)
(* layer counter as they were before the call.                             *)
(***************************************************************************)
C2_MismatchRaisesValueError ==
    [][(ret'.op = "run"
        /\ (WeightMismatch(weights, layer_sizes) \/ BiasMismatch(biases, layer_sizes)))
       => (/\ ret'.raised = "ValueError"
           /\ ret'.value = <<>>
           /\ current_layer' = current_layer
           /\ layer_counter' = layer_counter)]_vars

(***************************************************************************)
(* C3: whenever the weights list or the biases list is shorter or longer   *)
(* than len(layer_sizes) - 1, run() raises before any layer is updated: it *)
(* returns no result and does not advance the layer counter.               *)
(***************************************************************************)
C3_LengthsEnforced ==
    (ret.op = "run" /\ (Len(weights) # Transitions \/ Len(biases) # Transitions))
        => (ret.raised # "none" /\ ret.nupd = 0)

(***************************************************************************)
(* C4: the first element of the sequence a run() returns is the object's   *)
(* first_layer at the time of the call, whatever preceded the call,        *)
(* reassignments of first_layer included.                                  *)
(***************************************************************************)
C4_RunStartsAtFirstLayer ==
    RunReturned => ret.value[1] = first_layer

(***************************************************************************)
(* C9: in every state of a constructed network the layer counter is a      *)
(* valid index into layer_sizes, len(current_layer) is                     *)
(* layer_sizes[layer counter] and len(first_layer) is layer_sizes[0].      *)
(***************************************************************************)
C9_LayerCounterInvariant ==
    constructed =>
        /\ layer_counter < Len(layer_sizes)
        /\ PyLen(current_layer) = At(layer_sizes, layer_counter)
        /\ PyLen(first_layer) = At(layer_sizes, 0)

(***************************************************************************)
(* C5: invalid layer sizes (no numpy array, not one-dimensional, no        *)
(* integer dtype, an entry <= 0), handed to the constructor or assigned to *)
(* layer_sizes, raise TypeError or ValueError before any sigmoid or        *)
(* update is computed, and a rejected assignment leaves layer_sizes,       *)
(* current_layer and the layer counter unchanged.                          *)
(***************************************************************************)
InvalidLayerSizes(a) ==
    \/ a.kind # "ndarray"
    \/ Len(a.shape) # 1
    \/ a.dtype # "int"
    \/ \E i \in DOMAIN a.vals : a.vals[i] <= 0

C5_InvalidSizesRaiseBeforeAnyComputation ==
    [][(ret'.op \in {"__init__", "layer_sizes"} /\ InvalidLayerSizes(ret'.arg))
       => (/\ ret'.raised \in {"TypeError", "ValueError"}
           /\ ret'.nsig = 0
           /\ ret'.nupd = 0
           /\ ret'.op = "layer_sizes" =>
                  /\ layer_sizes' = layer_sizes
                  /\ current_layer' = current_layer
                  /\ layer_counter' = layer_counter)]_vars

\* C5 as amended: the error is raised before any update is computed; the
\* constructor has by then evaluated the sigmoid of its input vector twice
\* and yields no object, the setter evaluates no sigmoid and leaves
\* layer_sizes, current_layer and the layer counter unchanged.
C5_InvalidSizesRaiseBeforeAnyUpdate ==
    [][(ret'.op \in {"__init__", "layer_sizes"} /\ InvalidLayerSizes(ret'.arg))
       => (/\ ret'.raised \in {"TypeError", "ValueError"}
           /\ ret'.nupd = 0
           /\ ret'.op = "__init__" => (ret'.nsig = 2 /\ ~constructed')
           /\ ret'.op = "layer_sizes" =>
                  /\ ret'.nsig = 0
                  /\ layer_sizes' = layer_sizes
                  /\ current_layer' = current_layer
                  /\ layer_counter' = layer_counter)]_vars

\* a constructor call with a non-positive layer size has just raised
C5_Witness ==
    /\ ret.op = "__init__"
    /\ ret.arg \in NonPositiveSizes
    /\ ret.raised = "ValueError"
    /\ ret.nsig = 2

(***************************************************************************)
(* C6: the weights setter and the biases setter reject a well-typed list   *)
(* with an entry that does not match the sizes declared in layer_sizes: no *)
(* such list is ever stored by an assignment.                              *)
(***************************************************************************)
C6_SettersCheckShapes ==
    /\ (ret.op = "weights" /\ ret.raised = "none")
          => ~WeightMismatch(weights, layer_sizes)
    /\ (ret.op = "biases" /\ ret.raised = "none")
          => ~BiasMismatch(biases, layer_sizes)

(***************************************************************************)
(* C7: the output of the sigmoid function is strictly between 0 and 1 for  *)
(* every real input.                                                       *)
(***************************************************************************)
C7_SigmoidInOpenInterval == sig # "unset" => sig = "frac"

\* C7 as amended: the output lies in the closed interval [0, 1]; it is
\* exactly 1.0 for the inputs from 37 on, exactly 0.0 for the inputs up to
\* -710, and strictly between 0 and 1 for the inputs in between.
C7_SigmoidInClosedInterval ==
    sig # "unset" =>
        /\ sig \in {"zero", "frac", "one"}
        /\ sig = "one" <=> num >= 37
        /\ sig = "zero" <=> num <= -710

\* the sigmoid has been evaluated where it saturates
C7_Witness == sig = "one" /\ num >= 37

(***************************************************************************)
(* C8: a run() that returns gives the layers r[0..L-1]: r[0] is the        *)
(* sigmoid of the constructor's input vector, r[k+1] is                    *)
(* sigmoid(weights[k] . r[k] + biases[k]) for every k, one update() per    *)
(* transition; afterwards the layer counter is L-1 and current_layer is    *)
(* r[L-1].                                                                 *)
(***************************************************************************)
C8_RunComputesLayers ==
    RunReturned =>
        LET r == ret.value
            L == Len(layer_sizes)
        IN /\ Len(r) = L
           /\ At(r, 0) = sigmoid_function(ctor_input)
           /\ \A k \in 0..(L - 2) :
                 At(r, k + 1) =
                     sigmoid_function(
                         np_add(np_dot(At(weights, k), At(r, k)), At(biases, k)))
           /\ ret.nupd = L - 1
           /\ layer_counter = L - 1
           /\ current_layer = At(r, L - 1)

\* a run over two layer transitions has returned
C8_Witness ==
    /\ RunReturned
    /\ Len(ret.value) = 3
    /\ Len(weights) = 2

(***************************************************************************)
(* C10: whenever run() returns, the k-th returned layer has layer_sizes[k] *)
(* elements, for 2-D weight matrices as for 1-D weight vectors.            *)
(***************************************************************************)
C10_ReturnedLayerSizes ==
    RunReturned =>
        \A k \in 0..(Len(layer_sizes) - 1) :
            /\ k < Len(ret.value)
            /\ At(ret.value, k).shape = <<At(layer_sizes, k)>>

\* a run has returned that used a 2-D weight matrix and a 1-D weight vector
C10_Witness ==
    /\ RunReturned
    /\ Len(layer_sizes) = 3
    /\ Len(weights) = 2
    /\ Len(At(weights, 0).shape) = 2
    /\ Len(At(weights, 1).shape) = 1

====
